---- MODULE Spec2Model ----
(***************************************************************************)
(* State-machine model of gpt_code_interpreter.session.CodeInterpreterSession *)
(* (src/gpt_code_interpreter/session.py).  One step of the model is one     *)
(* stretch of handler code between two awaits; the collaborators that are  *)
(* awaited (the CodeBox backend, the langchain AgentExecutor, the          *)
(* get_file_modifications / remove_download_link chains) answer            *)
(* nondeterministically, an answer being a value or a raised exception.    *)
(*                                                                         *)
(* Texts are sequences of tokens; "x in text" and re.search are computed   *)
(* on the tokens.                                                          *)
(***************************************************************************)
EXTENDS Integers, Sequences, FiniteSets, TLC

VARIABLES
    codebox,        \* status of self.codebox: "created" | "running" | "stopped"
    caller,         \* the code driving the session: "plain", "body" (inside an
                    \* "async with session" block), "dead" (the process exited)
    input_files,    \* self.input_files
    output_files,   \* self.output_files
    pc,             \* the await generate_response is suspended at, "idle" outside a call
    request,        \* the UserRequest and detailed_error of the latest call
    upIdx,          \* _input_handler: index in request.files of the upload awaited
    iterations,     \* AgentExecutor: tool invocations completed in this arun
    exec,           \* _arun_handler: the CodeBoxOutput of this invocation
    mods,           \* _arun_handler: modifications, the list being iterated
    modIdx,         \* _arun_handler: index in mods of the download awaited
    final,          \* _output_handler: final_response awaiting remove_download_link
    response,       \* what the last generate_response call returned
    calls,          \* log: backend calls of the step just taken (lifecycle) or of
                    \* the current request phase (uploads) / tool invocation
    events,         \* log: Outputs handed to on_output in the current tool invocation
    fetched,        \* log: what the adownload calls of the current tool invocation
                    \* returned
    toolret,        \* log: what the current tool invocation returned to the agent
                    \* (the logs of an invocation last until the agent observes
                    \* its result, or, when it raised, until the next request)
    uploaded,       \* log: names whose aupload completed in the current request
    invocations,    \* log: _arun_handler invocations begun in the current request
    raised,         \* log: the exception raised in the current request and where
    requests,       \* number of generate_response calls made so far
    held            \* the files of a response the caller kept from an earlier
                    \* call, as the caller sees them now

vars == <<codebox, caller, input_files, output_files, pc, request, upIdx,
          iterations, exec, mods, modIdx, final, response, calls, events,
          toolret, uploaded, invocations, raised, requests, fetched, held>>

(***************************************************************************)
(* Bounds of the model.                                                    *)
(***************************************************************************)
MaxRequests == 2    \* generate_response calls per session
MaxOutputs == 2     \* the backend stops producing files at this many output_files
MaxInputs == 2      \* the caller stops attaching files at this many input_files

\* max_iterations of the AgentExecutor
MaxIterations == 9

None == "None"

(***************************************************************************)
(* Files and texts.                                                        *)
(***************************************************************************)
File(n, c) == [name |-> n, content |-> c]

Names(files) == {files[i].name : i \in 1..Len(files)}

\* f"image-{uuid.uuid4()}.png": uuid4 is fresh, the k-th image of the session
\* gets the k-th identifier
ImageName(k) == "image-" \o ToString(k) \o ".png"

IsImageFile(f) == f.content = "png"

NextUuid == Cardinality({i \in 1..Len(output_files) : IsImageFile(output_files[i])}) + 1

Contains(text, tok) == \E i \in 1..Len(text) : text[i] = tok

RECURSIVE Remove(_, _)
Remove(text, tok) ==
    IF text = <<>> THEN <<>>
    ELSE IF Head(text) = tok THEN Remove(Tail(text), tok)
         ELSE <<Head(text)>> \o Remove(Tail(text), tok)

(***************************************************************************)
(* Exceptions.  BackendError stands for any Exception a collaborator       *)
(* raises at an await.                                                     *)
(***************************************************************************)
Exc(cls, msg) == [cls |-> cls, msg |-> msg]

BackendError == Exc("ConnectionError", "backend unreachable")

ContentTypeError == Exc("TypeError", "Expected output.content to be a string.")

OutputKeywordError ==
    Exc("TypeError", "Output.__init__() got an unexpected keyword argument 'conatent'")

\* what a host's on_output sink raises
SinkError == Exc("RuntimeError", "sink failed")

Output(content, type) == [content |-> content, type |-> type]

(***************************************************************************)
(* CodeInterpreterResponse.  kind is bookkeeping: "finish" for the         *)
(* response _output_handler builds from the agent's final answer,          *)
(* "stopped" for the one it builds when the AgentExecutor ran out of       *)
(* iterations, "failure" for the one built in the except branch.           *)
(***************************************************************************)
NoResponse == [kind |-> "none", content |-> <<>>, files |-> <<>>]

NoRaise == [at |-> None, exc |-> Exc(None, None)]

Raise(at, e) == [at |-> at, exc |-> e]

GenericMsg ==
    <<"Sorry, something went while generating your response.Please try again or restart the session.">>

DetailedMsg(e) == <<"Error in CodeInterpreterSession: ", e.cls, "  - ", e.msg>>

NoRequest == [content |-> <<>>, files |-> <<>>, detailed_error |-> FALSE]

NoExec == [type |-> None, content |-> <<>>]

\* _output_handler's final_response; kind is bookkeeping as in the response
NoFinal == [kind |-> None, text |-> <<>>]

Init ==
    /\ codebox = "created"
    /\ caller = "plain"
    /\ input_files = <<>>
    /\ output_files = <<>>
    /\ pc = "idle"
    /\ request = NoRequest
    /\ upIdx = 0
    /\ iterations = 0
    /\ exec = NoExec
    /\ mods = <<>>
    /\ modIdx = 0
    /\ final = NoFinal
    /\ response = NoResponse
    /\ calls = <<>>
    /\ events = <<>>
    /\ fetched = <<>>
    /\ toolret = None
    /\ uploaded = <<>>
    /\ invocations = 0
    /\ raised = NoRaise
    /\ requests = 0
    /\ held = <<>>

(***************************************************************************)
(* Inputs of the model.                                                    *)
(***************************************************************************)
\* the calls a caller makes: user_msg and the names of the files attached, which
\* are fresh files or a file the session produced before
Input(user_msg, names) == [user_msg |-> user_msg, names |-> names]

UserInputs ==
    {Input(<<"Plot y=x^2">>, <<>>),
     Input(<<>>, <<"data.csv">>),
     Input(<<"describe this">>, <<"plot.png", "data.csv">>)}
    \cup {Input(<<"describe this">>, <<n>>) : n \in Names(output_files)}

\* the calls made in the lifecycle specification
LifecycleInputs == {Input(<<>>, <<"data.csv">>)}

\* the calls made by the caller that keeps responses
KeepInputs == {Input(<<"Plot y=x^2">>, <<>>), Input(<<>>, <<"data.csv">>)}

AttachFiles(names) == [i \in 1..Len(names) |-> File(names[i], "bytes")]

\* what get_file_modifications answers: None or a list of filenames
ModLists == {None, <<"data.csv", "plot.png">>}

\* the final answers the agent gives
FinalAnswers ==
    {<<"Done.">>, <<"Here it is:", "LINK">>}
    \cup {<<"See ", output_files[i].name, "IMGREF", "LINK">> :
             i \in {Len(output_files)} \ {0}}

\* AgentExecutor.return_stopped_response, early_stopping_method "force"
StoppedMsg == <<"Agent stopped due to iteration limit or time limit.">>

(***************************************************************************)
(* generate_response: the except branch.  Catch(e) is the step's effect    *)
(* when exception e reaches the try block.                                 *)
(***************************************************************************)
\* mutant: detailed_error is ignored
FailureResponseAlwaysGeneric(e, detailed_error) ==
    [kind |-> "failure", content |-> GenericMsg, files |-> <<>>]

FailureResponse(e, detailed_error) ==
    IF detailed_error
    THEN [kind |-> "failure", content |-> DetailedMsg(e), files |-> <<>>]
    ELSE [kind |-> "failure", content |-> GenericMsg, files |-> <<>>]

\* mutant: the call stays suspended where it was
ResetLocalsStuck ==
    /\ pc' = pc
    /\ request' = request
    /\ upIdx' = 0
    /\ iterations' = 0
    /\ modIdx' = 0
    /\ final' = NoFinal

\* generate_response returns: its frame and those of the calls below it are gone
ResetLocals ==
    /\ pc' = "idle"
    /\ request' = request
    /\ upIdx' = 0
    /\ iterations' = 0
    /\ modIdx' = 0
    /\ final' = NoFinal

Catch(e) ==
    /\ response' = FailureResponse(e, request.detailed_error)
    /\ raised' = Raise(pc, e)
    /\ ResetLocals

(***************************************************************************)
(* _input_handler                                                          *)
(***************************************************************************)
CannedPrompt == <<"I uploaded, just text me back and confirm that you got the file(s).">>

UploadHeader == <<"\n**The user uploaded the following files: **\n">>

UploadFooter == <<"**File(s) are now available in the cwd. **\n">>

Attachment(file) == <<"[Attachment: ", file.name, "]\n">>

\* the loop body up to its await: file number i is appended and announced
UploadBegin(content, files, i) ==
    /\ input_files' = Append(input_files, files[i])
    /\ request' = [request EXCEPT !.content = content \o Attachment(files[i])]
    /\ upIdx' = i
    /\ pc' = "upload"

\* generate_response up to its first await
GenerateResponse(user_msg, names, detailed_error) ==
    /\ pc = "idle"
    /\ caller \in {"plain", "body"}
    /\ requests < MaxRequests
    /\ Len(input_files) + Len(names) <= MaxInputs
    /\ requests' = requests + 1
    /\ response' = NoResponse
    /\ calls' = <<>>
    /\ events' = <<>>
    /\ fetched' = <<>>
    /\ toolret' = None
    /\ uploaded' = <<>>
    /\ invocations' = 0
    /\ raised' = NoRaise
    /\ iterations' = 0
    /\ exec' = NoExec
    /\ mods' = <<>>
    /\ LET files == AttachFiles(names)
           req == [content |-> user_msg, files |-> files,
                   detailed_error |-> detailed_error]
       IN IF files = <<>>
          THEN /\ request' = req
               /\ pc' = "plan"
               /\ UNCHANGED <<input_files, upIdx>>
          ELSE LET c0 == IF req.content = <<>> THEN CannedPrompt ELSE req.content
               IN /\ input_files' = Append(input_files, files[1])
                  /\ request' = [req EXCEPT !.content =
                                     c0 \o UploadHeader \o Attachment(files[1])]
                  /\ upIdx' = 1
                  /\ pc' = "upload"
    /\ UNCHANGED <<codebox, caller, output_files, modIdx, final, held>>

\* mutant: the loop is left after the first upload
UploadOkFirstOnly ==
    /\ pc = "upload"
    /\ uploaded' = Append(uploaded, request.files[upIdx].name)
    /\ request' = [request EXCEPT !.content = @ \o UploadFooter]
    /\ pc' = "plan"
    /\ UNCHANGED <<input_files, upIdx>>
    /\ UNCHANGED <<codebox, caller, output_files, iterations, exec, mods, modIdx,
                   final, response, calls, events, toolret, invocations, raised,
                   requests, fetched, held>>

\* await self.codebox.aupload(file.name, file.content) returns
UploadOk ==
    /\ pc = "upload"
    /\ uploaded' = Append(uploaded, request.files[upIdx].name)
    /\ IF upIdx < Len(request.files)
       THEN UploadBegin(request.content, request.files, upIdx + 1)
       ELSE /\ request' = [request EXCEPT !.content = @ \o UploadFooter]
            /\ pc' = "plan"
            /\ UNCHANGED <<input_files, upIdx>>
    /\ UNCHANGED <<codebox, caller, output_files, iterations, exec, mods, modIdx,
                   final, response, calls, events, toolret, invocations, raised,
                   requests, fetched, held>>

\* await self.codebox.aupload(...) raises
UploadRaises ==
    /\ pc = "upload"
    /\ Catch(BackendError)
    /\ UNCHANGED <<codebox, caller, input_files, output_files, exec, mods, calls,
                   events, toolret, uploaded, invocations, requests, fetched,
                   held>>

(***************************************************************************)
(* _arun_handler                                                           *)
(***************************************************************************)
Call(op, arg) == [op |-> op, arg |-> arg]

\* the code the agent submits
Code == <<"print(df.describe())">>

\* error texts the sandbox reports
ErrTexts ==
    {<<"Traceback (most recent call last):", "\n", "ModuleNotFoundError",
       ": No module named '", "foo", "'">>,
     <<"ModuleNotFoundError", ": No module named '", "foo.bar", "'", "; ", "'",
       "foo", "'", " is not a package">>,
     <<"ModuleNotFoundError", " was raised by the child process", "\n">>,
     <<"ZeroDivisionError: division by zero">>}

NotStr == <<"<bytes>">>

\* what codebox.arun answers
RunOutputs ==
    {[type |-> "image/png", content |-> <<"b64:png">>],
     [type |-> "text", content |-> <<"42">>],
     [type |-> "text", content |-> NotStr],
     [type |-> "image/png", content |-> NotStr]}
    \cup {[type |-> "error", content |-> e] : e \in ErrTexts}

\* what it answers in the lifecycle specification
LifecycleRunOutputs ==
    {[type |-> "text", content |-> <<"42">>],
     [type |-> "error", content |->
        <<"ModuleNotFoundError", ": No module named '", "foo", "'">>]}

\* mutant: the payload's type is not looked at
IsStrAlways(content) == TRUE

\* isinstance(output.content, str)
IsStr(content) == content # NotStr

\* what arun answers to the caller that keeps responses
KeepRunOutputs ==
    LifecycleRunOutputs \cup {[type |-> "image/png", content |-> <<"b64:png">>]}

B64Decode(content) == IF content = <<"b64:png">> THEN "png" ELSE "garbage"

\* re.search(r"ModuleNotFoundError: No module named '(.*)'", text): the leftmost
\* start, then the longest match; "." does not match a newline
MatchStarts(text) ==
    {i \in 1..(Len(text) - 1) :
        text[i] = "ModuleNotFoundError" /\ text[i + 1] = ": No module named '"}

MatchEnds(text, i) ==
    {j \in (i + 2)..Len(text) :
        text[j] = "'" /\ \A k \in (i + 2)..(j - 1) : text[k] # "\n"}

Min(S) == CHOOSE x \in S : \A y \in S : x <= y

Max(S) == CHOOSE x \in S : \A y \in S : x >= y

\* mutant: group(0), the whole match, is taken for the package
SearchPackageWholeMatch(text) ==
    LET starts == {i \in MatchStarts(text) : MatchEnds(text, i) # {}}
    IN IF starts = {} THEN None
       ELSE LET i == Min(starts)
                j == Max(MatchEnds(text, i))
            IN SubSeq(text, i, j)

\* package.group(1), or None when the pattern does not match
SearchPackage(text) ==
    LET starts == {i \in MatchStarts(text) : MatchEnds(text, i) # {}}
    IN IF starts = {} THEN None
       ELSE LET i == Min(starts)
                j == Max(MatchEnds(text, i))
            IN SubSeq(text, i + 2, j - 1)

InstalledMsg(package) ==
    package \o <<" was missing but got installed now. Please try again.">>

ImageSentMsg(filename) == <<"Image ", filename, " got send to the user.">>

\* mutant: the response holds the session's list itself
HeldAfterAppendAliased(files, file) == Append(files, file)

\* CodeInterpreterResponse(files=self.output_files) keeps a sequence of its own
\* that shares the File objects: an append to self.output_files does not reach
\* the files of a response built before
HeldAfterAppend(files, file) == files

\* self.output_files.append(file)
AppendOutput(file) ==
    /\ output_files' = Append(output_files, file)
    /\ held' = HeldAfterAppend(held, file)

\* the handler returns result to the AgentExecutor
HandlerReturn(result) ==
    /\ toolret' = result
    /\ iterations' = iterations
    /\ pc' = "ret"

\* mutant: no candidate is skipped
SkipCandidateNever(filename) == FALSE

\* mutant: the candidate is looked up among the output files
SkipCandidateOutputs(filename) == filename \in Names(output_files)

\* "if filename in [file.name for file in self.input_files]: continue"
SkipCandidate(filename) == filename \in Names(input_files)

\* index of the first candidate from position from on that is not skipped, 0 if none
NextCandidate(ms, from) ==
    LET todo == {k \in from..Len(ms) : ~SkipCandidate(ms[k])}
    IN IF todo = {} THEN 0 ELSE Min(todo)

\* the for loop over modifications, from position from to its next await or its end
DownloadLoop(ms, from) ==
    LET k == NextCandidate(ms, from)
    IN IF k = 0
       THEN /\ HandlerReturn(exec.content)
            /\ modIdx' = 0
            /\ calls' = calls
       ELSE /\ modIdx' = k
            /\ calls' = Append(calls, Call("download", ms[k]))
            /\ pc' = "download"
            /\ UNCHANGED <<toolret, iterations>>

\* mutant: the raw payload is returned to the agent
ImageBranchRawPayload(output) ==
    LET filename == ImageName(NextUuid)
        file == File(filename, B64Decode(output.content))
    IN /\ events' = Append(events, Output(file, "image"))
       /\ AppendOutput(file)
       /\ HandlerReturn(output.content)
       /\ UNCHANGED <<calls, response, request, upIdx, modIdx, final, raised,
                      fetched>>

\* the branch for output.type == "image/png"
ImageBranch(output) ==
    LET filename == ImageName(NextUuid)
        file == File(filename, B64Decode(output.content))
    IN /\ events' = Append(events, Output(file, "image"))
       /\ AppendOutput(file)
       /\ HandlerReturn(ImageSentMsg(filename))
       /\ UNCHANGED <<calls, response, request, upIdx, modIdx, final, raised,
                      fetched>>

\* the branch for output.type == "error"
ErrorBranch(output) ==
    LET package == SearchPackage(output.content)
    IN IF Contains(output.content, "ModuleNotFoundError") /\ package # None
       THEN /\ calls' = Append(calls, Call("install", package))
            /\ pc' = "install"
            /\ UNCHANGED <<events, output_files, toolret, iterations, response,
                           request, upIdx, modIdx, final, raised, fetched,
                           held>>
       ELSE \* Output(conatent=...) is no keyword of Output: TypeError
            /\ Catch(OutputKeywordError)
            /\ UNCHANGED <<events, output_files, toolret, calls, fetched, held>>

\* await self.codebox.arun(code) returns output
RunOk(output) ==
    /\ pc = "run"
    /\ output.type = "image/png" => Len(output_files) < MaxOutputs
    /\ exec' = output
    /\ IF ~IsStr(output.content)
       THEN /\ Catch(ContentTypeError)
            /\ UNCHANGED <<events, output_files, toolret, calls, fetched, held>>
       ELSE IF output.type = "image/png" THEN ImageBranch(output)
       ELSE IF output.type = "error" THEN ErrorBranch(output)
       ELSE /\ calls' = Append(calls, Call("get_file_modifications", Code))
            /\ pc' = "detect"
            /\ UNCHANGED <<events, output_files, toolret, iterations, response,
                           request, upIdx, modIdx, final, raised, fetched,
                           held>>
    /\ UNCHANGED <<codebox, caller, input_files, mods, uploaded, invocations,
                   requests>>

\* an await of _arun_handler raises: arun, ainstall, get_file_modifications, adownload
HandlerAwaitRaises ==
    /\ pc \in {"run", "install", "detect", "download"}
    /\ Catch(BackendError)
    /\ UNCHANGED <<codebox, caller, input_files, output_files, exec, mods, calls,
                   events, toolret, uploaded, invocations, requests, fetched,
                   held>>

\* await self.codebox.ainstall(package.group(1)) returns
InstallOk ==
    /\ pc = "install"
    /\ HandlerReturn(InstalledMsg(SearchPackage(exec.content)))
    /\ UNCHANGED <<codebox, caller, input_files, output_files, request, upIdx,
                   exec, mods, modIdx, final, response, calls, events, uploaded,
                   invocations, raised, requests, fetched, held>>

\* mutant: the str output is emitted whatever detection answers
DetectOkAlwaysStr(ms) ==
    /\ pc = "detect"
    /\ IF ms = None \/ ms = <<>>
       THEN /\ events' = Append(events, Output(exec.content, "str"))
            /\ HandlerReturn(exec.content)
            /\ UNCHANGED <<mods, modIdx, calls>>
       ELSE /\ mods' = ms
            /\ DownloadLoop(ms, 1)
            /\ events' = Append(events, Output(exec.content, "str"))
    /\ UNCHANGED <<codebox, caller, input_files, output_files, request, upIdx,
                   exec, final, response, uploaded, invocations, raised,
                   requests, fetched, held>>

\* await get_file_modifications(code, self.llm) returns ms
DetectOk(ms) ==
    /\ pc = "detect"
    /\ IF ms = None \/ ms = <<>>
       THEN /\ events' = Append(events, Output(exec.content, "str"))
            /\ HandlerReturn(exec.content)
            /\ UNCHANGED <<mods, modIdx, calls>>
       ELSE /\ mods' = ms
            /\ DownloadLoop(ms, 1)
            /\ events' = events
    /\ UNCHANGED <<codebox, caller, input_files, output_files, request, upIdx,
                   exec, final, response, uploaded, invocations, raised,
                   requests, fetched, held>>

\* what adownload answers for a file: bytes, or empty or absent content
DownloadContents == {"bytes", "", None}

\* mutant: only the empty bytes count as no content
FalsyEmptyOnly(content) == content = ""

\* "not fileb.content"
Falsy(content) == content \in {"", None}

\* await self.codebox.adownload(filename) returns fileb with this content
DownloadOk(content) ==
    /\ pc = "download"
    /\ ~Falsy(content) => Len(output_files) < MaxOutputs
    /\ fetched' = Append(fetched, File(mods[modIdx], content))
    /\ IF Falsy(content)
       THEN UNCHANGED <<output_files, events, held>>
       ELSE LET file == File(mods[modIdx], content)
            IN /\ AppendOutput(file)
               /\ events' = Append(events, Output(file, "file"))
    /\ DownloadLoop(mods, modIdx + 1)
    /\ UNCHANGED <<codebox, caller, input_files, request, upIdx, exec, mods,
                   final, response, uploaded, invocations, raised, requests>>

\* mutant: the code is not shown
HandlerBeginSilent(code) ==
    /\ events' = <<>>
    /\ fetched' = <<>>
    /\ calls' = <<Call("run", code)>>
    /\ toolret' = None
    /\ exec' = NoExec
    /\ mods' = <<>>
    /\ invocations' = invocations + 1
    /\ pc' = "run"

\* _arun_handler up to its first await: on_output(code), then arun is awaited
HandlerBegin(code) ==
    /\ events' = <<Output(code, "code")>>
    /\ fetched' = <<>>
    /\ calls' = <<Call("run", code)>>
    /\ toolret' = None
    /\ exec' = NoExec
    /\ mods' = <<>>
    /\ invocations' = invocations + 1
    /\ pc' = "run"

(***************************************************************************)
(* _arun_handler with a sink that raises: self.on_output(...) is a plain   *)
(* call, so the sink's exception leaves the handler at the call and        *)
(* travels through AgentExecutor.arun into generate_response's try block.  *)
(***************************************************************************)
\* self.on_output(Output(content=code, type="code")) raises: arun is not awaited
SinkRaisesOnCode ==
    /\ pc = "plan"
    /\ iterations < MaxIterations
    /\ events' = <<Output(Code, "code")>>
    /\ fetched' = <<>>
    /\ calls' = <<>>
    /\ toolret' = None
    /\ exec' = NoExec
    /\ mods' = <<>>
    /\ invocations' = invocations + 1
    /\ Catch(SinkError)
    /\ UNCHANGED <<codebox, caller, input_files, output_files, uploaded, requests, held>>

\* self.on_output(Output(content=file, type="image")) raises: the append of the
\* next line is not reached
SinkRaisesOnImage(output) ==
    /\ pc = "run"
    /\ IsStr(output.content)
    /\ output.type = "image/png"
    /\ exec' = output
    /\ LET file == File(ImageName(NextUuid), B64Decode(output.content))
       IN events' = Append(events, Output(file, "image"))
    /\ Catch(SinkError)
    /\ UNCHANGED <<codebox, caller, input_files, output_files, mods, calls,
                   toolret, uploaded, invocations, requests, fetched, held>>

\* self.on_output(Output(content=file, type="file")) raises: the file was
\* appended on the line before
SinkRaisesOnFile(content) ==
    /\ pc = "download"
    /\ ~Falsy(content)
    /\ Len(output_files) < MaxOutputs
    /\ fetched' = Append(fetched, File(mods[modIdx], content))
    /\ LET file == File(mods[modIdx], content)
       IN /\ AppendOutput(file)
          /\ events' = Append(events, Output(file, "file"))
    /\ Catch(SinkError)
    /\ UNCHANGED <<codebox, caller, input_files, exec, mods, calls, toolret,
                   uploaded, invocations, requests>>

\* self.on_output(Output(content=output.content, type="str")) raises
SinkRaisesOnStr(ms) ==
    /\ pc = "detect"
    /\ IF ms = None THEN TRUE ELSE ms = <<>>
    /\ events' = Append(events, Output(exec.content, "str"))
    /\ Catch(SinkError)
    /\ UNCHANGED <<codebox, caller, input_files, output_files, exec, mods, calls,
                   toolret, uploaded, invocations, requests, fetched, held>>

(***************************************************************************)
(* _output_handler                                                         *)
(***************************************************************************)
\* "for file in self.output_files: if str(file.name) in final_response:
\*  final_response = re.sub(image reference, "", final_response)"
RECURSIVE StripImageRefs(_, _)
StripImageRefs(text, files) ==
    IF files = <<>> THEN text
    ELSE StripImageRefs(IF Contains(text, Head(files).name)
                        THEN Remove(text, "IMGREF") ELSE text,
                        Tail(files))

\* mutant: every answer is taken to hold a link
HasLinkAlways(text) == TRUE

\* re.search(r"\n\[.*\]\(.*\)", final_response)
HasLink(text) == Contains(text, "LINK")

\* mutant: the response is built without the files
OkResponseNoFiles(kind, content) ==
    [kind |-> kind, content |-> content, files |-> <<>>]

OkResponse(kind, content) ==
    [kind |-> kind, content |-> content, files |-> output_files]

\* _output_handler up to its await, or to its return when there is none
OutputHandler(kind, final_response) ==
    LET text == StripImageRefs(final_response, output_files)
    IN IF output_files # <<>> /\ HasLink(text)
       THEN /\ final' = [kind |-> kind, text |-> text]
            /\ calls' = Append(calls, Call("remove_download_link", text))
            /\ pc' = "rewrite"
            /\ UNCHANGED <<response, request, upIdx, iterations, modIdx>>
       ELSE /\ response' = OkResponse(kind, text)
            /\ calls' = calls
            /\ ResetLocals

\* await remove_download_link(final_response, self.llm) returns
RewriteOk ==
    /\ pc = "rewrite"
    /\ response' = OkResponse(final.kind, Remove(final.text, "LINK"))
    /\ ResetLocals
    /\ UNCHANGED <<codebox, caller, input_files, output_files, exec, mods, calls,
                   events, toolret, uploaded, invocations, raised, requests,
                   fetched, held>>

\* await remove_download_link(...) raises: caught in _output_handler
RewriteRaises ==
    /\ pc = "rewrite"
    /\ response' = OkResponse(final.kind, final.text)
    /\ raised' = Raise(pc, BackendError)
    /\ ResetLocals
    /\ UNCHANGED <<codebox, caller, input_files, output_files, exec, mods, calls,
                   events, toolret, uploaded, invocations, requests, fetched,
                   held>>

(***************************************************************************)
(* AgentExecutor.arun, as configured by _agent_executor                    *)
(***************************************************************************)
\* mutant: the bound is compared with <=
ShouldContinueOffByOne == iterations <= MaxIterations

\* AgentExecutor._should_continue
ShouldContinue == iterations < MaxIterations

\* the AgentExecutor takes the tool's result as the observation, counts the
\* iteration and awaits the agent's next plan
AgentObserve ==
    /\ pc = "ret"
    /\ iterations' = iterations + 1
    /\ pc' = "plan"
    /\ events' = <<>>
    /\ fetched' = <<>>
    /\ calls' = <<>>
    /\ toolret' = None
    /\ exec' = NoExec
    /\ mods' = <<>>
    /\ UNCHANGED <<codebox, caller, input_files, output_files, request, upIdx,
                   modIdx, final, response, uploaded, invocations, raised,
                   requests, held>>

\* the agent asks for the python tool
AgentToolCall ==
    /\ pc = "plan"
    /\ ShouldContinue
    /\ HandlerBegin(Code)
    /\ UNCHANGED <<codebox, caller, input_files, output_files, request, upIdx,
                   iterations, modIdx, final, response, uploaded, raised,
                   requests, held>>

\* the agent gives its final answer: arun returns it and _output_handler runs
AgentFinish(answer) ==
    /\ pc = "plan"
    /\ ShouldContinue
    /\ OutputHandler("finish", answer)
    /\ UNCHANGED <<codebox, caller, input_files, output_files, exec, mods, events,
                   toolret, uploaded, invocations, raised, requests, fetched,
                   held>>

\* out of iterations: arun returns the stopped response
AgentStopped ==
    /\ pc = "plan"
    /\ ~ShouldContinue
    /\ OutputHandler("stopped", StoppedMsg)
    /\ UNCHANGED <<codebox, caller, input_files, output_files, exec, mods, events,
                   toolret, uploaded, invocations, raised, requests, fetched,
                   held>>

\* the agent's plan raises
AgentRaises ==
    /\ pc = "plan"
    /\ ShouldContinue
    /\ Catch(BackendError)
    /\ UNCHANGED <<codebox, caller, input_files, output_files, exec, mods, calls,
                   events, toolret, uploaded, invocations, requests, fetched,
                   held>>

(***************************************************************************)
(* Lifecycle: start, astart, astop, __aenter__, __aexit__.  The caller     *)
(* makes these calls between requests; a cancellation of the block's body  *)
(* may also arrive while generate_response is suspended.                   *)
(***************************************************************************)
Alive == caller \in {"plain", "body"}

\* what the rest of the session state does while a lifecycle call is made
LifecycleFrame ==
    UNCHANGED <<input_files, output_files, pc, request, upIdx, iterations, exec,
                mods, modIdx, final, response, events, toolret, uploaded,
                invocations, raised, requests, fetched, held>>

\* self.codebox.start() / await self.codebox.astart(); ok: whether it returns
BackendStart(op, ok) ==
    /\ calls' = <<Call(op, None)>>
    /\ codebox' = IF ok THEN "running" ELSE codebox

\* await self.codebox.astop()
BackendStop(ok) ==
    /\ calls' = <<Call("astop", None)>>
    /\ codebox' = IF ok THEN "stopped" ELSE codebox

\* start()
Start(ok) ==
    /\ pc = "idle"
    /\ Alive
    /\ BackendStart("start", ok)
    /\ UNCHANGED caller
    /\ LifecycleFrame

\* the check astart makes when self.codebox is not the managed CodeBox
GatewayEnvs == {"managed", "local", "local_without_gateway"}

\* mutant: astop is awaited only when the body returned
AExitBodyOnReturnOnly(path, ok) ==
    IF path = "return"
    THEN /\ calls' = <<Call("__aexit__", path), Call("astop", None)>>
         /\ codebox' = IF ok THEN "stopped" ELSE codebox
    ELSE /\ calls' = <<Call("__aexit__", path)>>
         /\ codebox' = codebox

\* __aexit__(exc_type, ...): astop, whatever exc_type is; path is how the body
\* ended, "return" (exc_type None), "exception" or "cancel"
AExitBody(path, ok) ==
    /\ calls' = <<Call("__aexit__", path), Call("astop", None)>>
    /\ codebox' = IF ok THEN "stopped" ELSE codebox

\* astart(): exit(1) when the local box lacks jupyter-kernel-gateway; the
\* SystemExit leaves an enclosing "async with" block through __aexit__
AStart(env, ok) ==
    /\ pc = "idle"
    /\ Alive
    /\ IF env = "local_without_gateway"
       THEN /\ caller' = "dead"
            /\ IF caller = "body" THEN AExitBody("exception", ok)
               ELSE UNCHANGED <<codebox, calls>>
       ELSE /\ BackendStart("astart", ok)
            /\ caller' = caller
    /\ LifecycleFrame

\* astop()
AStop(ok) ==
    /\ pc = "idle"
    /\ Alive
    /\ BackendStop(ok)
    /\ UNCHANGED caller
    /\ LifecycleFrame

\* __aenter__: astart, then the block's body is entered
AEnter(env, ok) ==
    /\ pc = "idle"
    /\ caller = "plain"
    /\ IF env = "local_without_gateway"
       THEN /\ caller' = "dead"
            /\ UNCHANGED <<codebox, calls>>
       ELSE /\ BackendStart("astart", ok)
            /\ caller' = IF ok THEN "body" ELSE "plain"
    /\ LifecycleFrame

\* the block's body ends by returning or by raising, between two requests
AExit(path, ok) ==
    /\ caller = "body"
    /\ pc = "idle"
    /\ path \in {"return", "exception"}
    /\ AExitBody(path, ok)
    /\ caller' = "plain"
    /\ LifecycleFrame

\* the body is cancelled while generate_response is suspended: CancelledError is
\* no Exception, it passes the except branch and reaches __aexit__
AExitCancelled(ok) ==
    /\ caller = "body"
    /\ pc # "idle"
    /\ AExitBody("cancel", ok)
    /\ caller' = "plain"
    /\ ResetLocals
    /\ UNCHANGED <<input_files, output_files, exec, mods, response, events,
                   toolret, uploaded, invocations, raised, requests, fetched,
                   held>>

(***************************************************************************)
(* The specifications.  Spec: a caller that starts the session and then    *)
(* makes requests.  LifecycleSpec: a caller that starts, stops, enters and *)
(* leaves the session freely between (and, by cancellation, during)       *)
(* requests.                                                               *)
(***************************************************************************)
RequestSteps(outputs) ==
    \/ UploadOk
    \/ UploadRaises
    \/ AgentObserve
    \/ AgentToolCall
    \/ \E answer \in FinalAnswers : AgentFinish(answer)
    \/ AgentStopped
    \/ AgentRaises
    \/ \E output \in outputs : RunOk(output)
    \/ HandlerAwaitRaises
    \/ InstallOk
    \/ \E ms \in ModLists : DetectOk(ms)
    \/ \E content \in DownloadContents : DownloadOk(content)
    \/ RewriteOk
    \/ RewriteRaises

\* the steps of a request whose on_output sink raises
SinkSteps(outputs) ==
    \/ SinkRaisesOnCode
    \/ \E output \in outputs : SinkRaisesOnImage(output)
    \/ \E content \in DownloadContents : SinkRaisesOnFile(content)
    \/ \E ms \in ModLists : SinkRaisesOnStr(ms)

Next ==
    \/ codebox = "created" /\ \E ok \in BOOLEAN : Start(ok)
    \/ codebox = "created" /\ \E env \in GatewayEnvs, ok \in BOOLEAN : AStart(env, ok)
    \/ codebox = "running" /\ \E in \in UserInputs, d \in BOOLEAN :
          GenerateResponse(in.user_msg, in.names, d)
    \/ RequestSteps(RunOutputs)
    \/ SinkSteps(RunOutputs)

Spec == Init /\ [][Next]_vars

LifecycleNext ==
    \/ \E ok \in BOOLEAN : Start(ok)
    \/ \E env \in GatewayEnvs, ok \in BOOLEAN : AStart(env, ok)
    \/ \E ok \in BOOLEAN : AStop(ok)
    \/ \E env \in GatewayEnvs, ok \in BOOLEAN : AEnter(env, ok)
    \/ \E path \in {"return", "exception"}, ok \in BOOLEAN : AExit(path, ok)
    \/ \E ok \in BOOLEAN : AExitCancelled(ok)
    \/ \E in \in LifecycleInputs : GenerateResponse(in.user_msg, in.names, FALSE)
    \/ RequestSteps(LifecycleRunOutputs)

LifecycleSpec == Init /\ [][LifecycleNext]_vars

\* the caller holds on to the response the last call returned, as the example's
\* "response = await session.generate_response(...)" does
CallerKeeps ==
    /\ pc = "idle"
    /\ Alive
    /\ response.kind # "none"
    /\ held' = response.files
    /\ UNCHANGED <<codebox, caller, input_files, output_files, pc, request, upIdx,
                   iterations, exec, mods, modIdx, final, response, calls,
                   events, toolret, uploaded, invocations, raised, requests,
                   fetched>>

KeepNext ==
    \/ codebox = "created" /\ \E ok \in BOOLEAN : Start(ok)
    \/ codebox = "running" /\ \E in \in KeepInputs :
          GenerateResponse(in.user_msg, in.names, FALSE)
    \/ RequestSteps(KeepRunOutputs)
    \/ CallerKeeps

\* a caller that keeps the responses it gets while it makes further requests
KeepSpec == Init /\ [][KeepNext]_vars

(***************************************************************************)
(* Properties.                                                             *)
(***************************************************************************)
InRequest == pc # "idle"

Returned == pc = "idle" /\ response.kind # "none"

CallsOf(op) == {i \in 1..Len(calls) : calls[i].op = op}

EventsOf(type) == {i \in 1..Len(events) : events[i].type = type}

\* the names n for which text holds "ModuleNotFoundError: No module named 'n'"
MissingModules(text) ==
    {SubSeq(text, i + 2, j - 1) :
        <<i, j>> \in {p \in (1..Len(text)) \X (1..Len(text)) :
                        /\ p[1] + 2 <= p[2]
                        /\ text[p[1]] = "ModuleNotFoundError"
                        /\ text[p[1] + 1] = ": No module named '"
                        /\ text[p[2]] = "'"
                        /\ \A k \in (p[1] + 2)..(p[2] - 1) : text[k] # "\n"}}

\* C1 as stated: whatever await of generate_response raised (the link-rewrite
\* pass included), the call returned the failure response, with the generic
\* message, or when detailed_error is set with the exception's class and text.
C1_AnyRaiseGivesFailure ==
    (pc = "idle" /\ raised.at # None) =>
        /\ response.kind = "failure"
        /\ IF request.detailed_error
           THEN /\ Contains(response.content, raised.exc.cls)
                /\ Contains(response.content, raised.exc.msg)
           ELSE response.content = GenericMsg

\* C1 as amended: an exception raised at the upload, the agent step, the run,
\* install, modification-detection or download await ends the call with the
\* failure response (generic, or with the exception's class and text when
\* detailed_error is set); one raised by the link-rewrite pass is absorbed and
\* the call returns the normal response with the un-rewritten answer.  No
\* exception leaves the call pending.
C1_ExceptionsContained ==
    /\ InRequest => raised = NoRaise
    /\ (pc = "idle" /\ raised.at # None) =>
          IF raised.at = "rewrite"
          THEN /\ response.kind \in {"finish", "stopped"}
               /\ HasLink(response.content)
               /\ response.content # GenericMsg
               /\ response.files = output_files
          ELSE /\ response.kind = "failure"
               /\ IF request.detailed_error
                  THEN /\ Contains(response.content, raised.exc.cls)
                       /\ Contains(response.content, raised.exc.msg)
                       /\ response.content # GenericMsg
                  ELSE response.content = GenericMsg

C1_Witness ==
    /\ pc = "idle"
    /\ raised = Raise("download", BackendError)
    /\ request.detailed_error
    /\ response.content =
          <<"Error in CodeInterpreterSession: ", "ConnectionError", "  - ",
            "backend unreachable">>

\* C2: a request never makes more than 9 invocations of the tool handler; a
\* request whose agent asked for the tool at every step and in which nothing
\* raised ends with the stopped response after exactly 9 invocations, and at 9
\* completed iterations the agent is not asked again.
C2_IterationBound ==
    /\ invocations <= 9
    /\ iterations <= invocations
    /\ (pc = "plan" /\ iterations = 9) => ~ENABLED AgentToolCall
    /\ (Returned /\ response.kind = "stopped") => invocations = 9
    /\ (Returned /\ invocations = 9) => response.kind \in {"stopped", "failure"}

C2_Witness ==
    /\ Returned
    /\ response.kind = "stopped"
    /\ response.content = StoppedMsg
    /\ invocations = 9

C4_ErrorSurfaced ==
    (exec.type = "error" /\ MissingModules(exec.content) = {}) =>
        /\ events = <<Output(Code, "code"), Output(exec.content, "error")>>
        /\ toolret = exec.content
        /\ raised = NoRaise

\* C5: no candidate of modification detection that names a file of input_files
\* is downloaded, emitted as a file output or appended to output_files by the
\* invocation; the other candidates are downloaded.
C5_InputsNotDownloaded ==
    /\ \A i \in CallsOf("download") : calls[i].arg \notin Names(input_files)
    /\ \A i \in EventsOf("file") : events[i].content.name \notin Names(input_files)
    /\ \A i \in 1..Len(mods) :
          mods[i] \in Names(input_files) =>
              /\ \A j \in CallsOf("download") : calls[j].arg # mods[i]
              /\ \A j \in EventsOf("file") : events[j].content.name # mods[i]
    /\ (pc = "download") =>
          /\ calls[Len(calls)] = Call("download", mods[modIdx])
          /\ mods[modIdx] \notin Names(input_files)
    /\ (mods # <<>> /\ toolret # None) =>
          \A i \in 1..Len(mods) :
              mods[i] \notin Names(input_files) =>
                  \E j \in CallsOf("download") : calls[j].arg = mods[i]

C5_Witness ==
    /\ pc = "ret"
    /\ mods = <<"data.csv", "plot.png">>
    /\ "data.csv" \in Names(input_files)
    /\ calls = <<Call("run", Code), Call("get_file_modifications", Code),
                 Call("download", "plot.png")>>
    /\ events = <<Output(Code, "code"), Output(File("plot.png", "bytes"), "file")>>

IsPrefix(a, b) == Len(a) <= Len(b) /\ SubSeq(b, 1, Len(a)) = a

\* the files a step appends to output_files
Appended == {output_files'[i] : i \in (Len(output_files) + 1)..Len(output_files')}

\* C6 as stated: in every reachable state no name of input_files is a name of
\* output_files.
C6_InputOutputDisjoint == Names(input_files) \cap Names(output_files) = {}

\* C6 as amended: output_files only grows, and no step appends to output_files a
\* file whose name is held by input_files at that moment; a name is in both
\* lists only when a file produced earlier is attached to a later request.
C6_NoInputNameAppended ==
    [][/\ IsPrefix(output_files, output_files')
       /\ \A f \in Appended :
             f.name \notin Names(input_files) \cup Names(input_files')
       /\ (Names(input_files') \cap Names(output_files')) \
             (Names(input_files) \cap Names(output_files))
             \subseteq Names(output_files)]_vars

C6_Witness ==
    /\ pc = "ret"
    /\ Names(input_files) = {"data.csv"}
    /\ mods = <<"data.csv", "plot.png">>
    /\ EventsOf("file") # {}
    /\ output_files = <<File("image-1.png", "png"), File("plot.png", "bytes")>>

\* C7: "async with session" enters the body only by a step that awaited astart
\* and found the backend running, and every step that leaves the body, by
\* return, exception or cancellation, is __aexit__ awaiting astop exactly once;
\* no step inside the body runs __aexit__.
C7_ScopedStartStop ==
    [][/\ (caller = "plain" /\ caller' = "body") =>
             (calls' = <<Call("astart", None)>> /\ codebox' = "running")
       /\ (caller = "body" /\ caller' # "body") =>
             /\ Len(calls') = 2
             /\ calls'[1].op = "__aexit__"
             /\ calls'[1].arg \in {"return", "exception", "cancel"}
             /\ calls'[2] = Call("astop", None)
             /\ codebox' \in {"stopped", codebox}
             /\ pc' = "idle"
       /\ (caller = "body" /\ caller' = "body") =>
             \A i \in 1..Len(calls') : calls'[i].op # "__aexit__"]_vars

C7_Witness ==
    /\ caller = "plain"
    /\ calls = <<Call("__aexit__", "cancel"), Call("astop", None)>>
    /\ codebox = "stopped"
    /\ requests = 1

\* C8 as stated: once the backend is stopped, no step starts it again and no
\* generate_response episode begins.
C8_StoppedIsFinal ==
    [][codebox = "stopped" => (codebox' = "stopped" /\ pc' = "idle")]_vars

RequestNames == [i \in 1..Len(request.files) |-> request.files[i].name]

LastInputs(n) ==
    IF n <= Len(input_files)
    THEN SubSeq(input_files, Len(input_files) - n + 1, Len(input_files))
    ELSE <<>>

\* C9: while an upload is awaited no tool invocation has begun, the files before
\* it are uploaded and appended in the order given; once the agent is invoked
\* every attached file is in input_files and uploaded, in the order given.
C9_UploadsBeforeAgent ==
    /\ (pc = "upload") =>
          /\ invocations = 0 /\ events = <<>> /\ calls = <<>>
          /\ upIdx \in 1..Len(request.files)
          /\ uploaded = SubSeq(RequestNames, 1, upIdx - 1)
          /\ LastInputs(upIdx) = SubSeq(request.files, 1, upIdx)
    /\ (pc \in {"plan", "run", "install", "detect", "download", "ret", "rewrite"}
        \/ invocations > 0) =>
          /\ uploaded = RequestNames
          /\ LastInputs(Len(request.files)) = request.files

C9_Witness ==
    /\ pc = "run"
    /\ invocations = 1
    /\ uploaded = <<"plot.png", "data.csv">>
    /\ input_files = <<File("plot.png", "bytes"), File("data.csv", "bytes")>>

\* C10 as stated: every response generate_response returned has files equal to
\* output_files.
C10_EveryResponseHasFiles == Returned => response.files = output_files

\* C10 as amended: the response returned through _output_handler (the agent
\* finished, or the iteration bound was hit) has files equal to output_files,
\* which holds the files of this and the earlier requests in the order they
\* were produced (it is only ever appended to); the failure response of the
\* except branch is built without them.
C10_OutputHandlerResponseFiles ==
    /\ [](Returned =>
            IF response.kind = "failure" THEN response.files = <<>>
            ELSE response.files = output_files)
    /\ [][IsPrefix(output_files, output_files')]_vars

C10_Witness ==
    /\ Returned
    /\ response.kind = "finish"
    /\ requests = 2
    /\ invocations = 1
    /\ Len(response.files) = 2
    /\ response.files = output_files

\* C11: a request calls the link-rewrite pass at most once, and only with
\* output_files non-empty and an answer that (after the image references were
\* stripped) still holds a link; when the pass raises, the call returns the
\* normal response with that un-rewritten answer and with output_files, not the
\* failure response.
C11_RewriteOnceAndAbsorbed ==
    /\ Cardinality(CallsOf("remove_download_link")) <= 1
    /\ \A i \in CallsOf("remove_download_link") :
          /\ i = Len(calls)
          /\ pc \in {"rewrite", "idle"}
          /\ output_files # <<>>
          /\ Contains(calls[i].arg, "LINK")
          /\ (\E k \in 1..Len(output_files) :
                 Contains(calls[i].arg, output_files[k].name))
                => ~Contains(calls[i].arg, "IMGREF")
          /\ (pc = "idle" /\ raised.at = "rewrite") =>
                /\ response.kind \in {"finish", "stopped"}
                /\ response.content = calls[i].arg
                /\ response.files = output_files
    /\ (pc = "rewrite" \/ raised.at = "rewrite") =>
          CallsOf("remove_download_link") # {}
    /\ (Returned /\ response.kind # "failure"
        /\ CallsOf("remove_download_link") = {}) =>
          (output_files = <<>> \/ ~Contains(response.content, "LINK"))

C11_Witness ==
    /\ pc = "idle"
    /\ raised = Raise("rewrite", BackendError)
    /\ calls = <<Call("remove_download_link", <<"See ", "image-1.png", "LINK">>)>>
    /\ response = [kind |-> "finish", content |-> <<"See ", "image-1.png", "LINK">>,
                   files |-> <<File("image-1.png", "png")>>]

\* C12 as stated: an exception the on_output sink throws is not caught by the
\* core: generate_response does not absorb it or turn it into a response, so a
\* call in which the sink threw has returned no response.
C12_SinkExceptionNotCaught == raised.exc = SinkError => response.kind = "none"

\* C13: a tool invocation whose run returned an image (and whose sink calls
\* returned) emits, after the code event, exactly one image event carrying a
\* File with a new name, appends exactly that File to output_files, makes no
\* install, modification-detection or download call, and returns to the agent
\* the confirmation string naming the file, never the payload.
C13_ImageBranch ==
    [][(pc = "run" /\ exec'.type = "image/png" /\ raised' = NoRaise) =>
          /\ pc' = "ret"
          /\ Len(events') = 2
          /\ events'[1] = Output(Code, "code")
          /\ events'[2].type = "image"
          /\ events'[2].content.name \notin Names(output_files)
          /\ output_files' = Append(output_files, events'[2].content)
          /\ calls' = <<Call("run", Code)>>
          /\ toolret' = <<"Image ", events'[2].content.name, " got send to the user.">>
          /\ toolret' # exec'.content
          /\ \A i \in 1..Len(exec'.content) : ~Contains(toolret', exec'.content[i])]_vars

C13_Witness ==
    /\ pc = "ret"
    /\ exec.type = "image/png"
    /\ events = <<Output(Code, "code"), Output(File("image-1.png", "png"), "image")>>
    /\ output_files = <<File("plot.png", "bytes"), File("image-1.png", "png")>>
    /\ toolret = <<"Image ", "image-1.png", " got send to the user.">>

\* a step of generate_response that is no cancellation of the caller's block
RequestStep == (pc # "idle" \/ requests' # requests) /\ caller' = caller

LifecycleOps == {"start", "astart", "astop", "__aexit__"}

C15_EventOrder ==
    /\ [](/\ events # <<>> =>
               /\ events[1] = Output(Code, "code")
               /\ EventsOf("code") = {1}
          /\ pc = "run" => (events = <<Output(Code, "code")>>
                            /\ calls = <<Call("run", Code)>>)
          /\ pc \in {"install", "detect", "download", "ret"} =>
               (events # <<>> /\ calls # <<>> /\ calls[1] = Call("run", Code)))
    /\ [][/\ invocations' = invocations + 1 =>
               /\ pc = "plan" /\ events = <<>> /\ toolret = None
               /\ events' = <<Output(Code, "code")>>
               /\ IF raised' = NoRaise
                  THEN pc' = "run" /\ calls' = <<Call("run", Code)>>
                  ELSE raised'.exc = SinkError /\ calls' = <<>>
          /\ (events' # events /\ invocations' = invocations /\ events' # <<>>) =>
               /\ pc \in {"run", "detect", "download"}
               /\ exec'.type # None
               /\ toolret = None
               /\ IsPrefix(events, events')
               /\ Len(events') = Len(events) + 1
               /\ events'[Len(events')].type \in {"image", "file", "str", "error"}
          /\ toolret # None => events' \in {events, <<>>}]_vars

C15_Witness ==
    /\ pc = "ret"
    /\ invocations = 2
    /\ output_files = <<File("image-1.png", "png"), File("plot.png", "bytes")>>
    /\ events = <<Output(Code, "code"), Output(File("plot.png", "bytes"), "file")>>
    /\ toolret = <<"42">>

\* the invocation returned to the agent a result that is neither image nor error
TextReturned == pc = "ret" /\ exec.type \notin {None, "image/png", "error"}

\* C16 as stated: such an invocation emitted, after the code event, either at
\* least one file output or exactly one str output, never both and never
\* neither, the str output exactly when detection named no candidates.
C16_FileOrStr ==
    TextReturned =>
        /\ \/ EventsOf("file") # {} /\ EventsOf("str") = {}
           \/ EventsOf("file") = {} /\ Cardinality(EventsOf("str")) = 1
        /\ EventsOf("str") # {} <=> mods = <<>>

\* C16 as amended: such an invocation emitted, after the code event, exactly one
\* str output carrying the result text when detection named no candidates, and
\* otherwise no str output and one file output for each candidate that was
\* downloaded with content, which may be none (every candidate an input file
\* or without content); never both kinds.
C16_FileXorStrOrNeither ==
    TextReturned =>
        /\ EventsOf("code") = {1}
        /\ EventsOf("image") = {} /\ EventsOf("error") = {}
        /\ IF mods = <<>>
           THEN events = <<Output(Code, "code"), Output(exec.content, "str")>>
           ELSE /\ EventsOf("str") = {}
                /\ EventsOf("file") = 2..Len(events)
                /\ Len(events) - 1 <= Cardinality(CallsOf("download"))
                /\ \A i \in EventsOf("file") :
                      /\ \E j \in CallsOf("download") :
                            calls[j].arg = events[i].content.name
                      /\ events[i].content.content # ""
                      /\ \E k \in 1..Len(output_files) :
                            output_files[k] = events[i].content
        /\ toolret = exec.content

C16_Witness ==
    /\ TextReturned
    /\ mods = <<"data.csv", "plot.png">>
    /\ calls = <<Call("run", Code), Call("get_file_modifications", Code),
                 Call("download", "plot.png")>>
    /\ events = <<Output(Code, "code")>>

\* C17: a step in which adownload returns empty or absent content for a
\* candidate appends nothing to output_files, emits no event and raises
\* nothing; the loop goes on to the next candidate that is no input file, and
\* when there is none the handler returns the result text.  No error event is
\* emitted for a download.
C17_EmptyDownloadSkipped ==
    /\ [][(Len(fetched') = Len(fetched) + 1
           /\ fetched'[Len(fetched')].content \in {"", None}) =>
            /\ pc = "download"
            /\ fetched'[Len(fetched')].name = mods[modIdx]
            /\ output_files' = output_files
            /\ events' = events
            /\ raised' = NoRaise
            /\ LET rest == {k \in (modIdx + 1)..Len(mods) :
                              mods[k] \notin Names(input_files)}
               IN IF rest = {}
                  THEN pc' = "ret" /\ toolret' = exec.content
                  ELSE /\ pc' = "download"
                       /\ modIdx' = Min(rest)
                       /\ calls' = Append(calls, Call("download", mods[Min(rest)]))
                       /\ toolret' = None]_vars
    /\ [](fetched # <<>> => EventsOf("error") = {})

C17_Witness ==
    /\ pc = "ret"
    /\ fetched = <<File("data.csv", None), File("plot.png", "bytes")>>
    /\ events = <<Output(Code, "code"), Output(File("plot.png", "bytes"), "file")>>
    /\ output_files = <<File("plot.png", "bytes")>>
    /\ toolret = <<"42">>

\* C18: when the run returns a payload that is no text, whatever its type, the
\* step raises TypeError: no event is emitted after the code event, no install,
\* modification-detection or download call is made, output_files is as it was
\* when the invocation began, no further invocation is made and the request
\* ends with the failure response.
C18_NonTextPayloadFatal ==
    /\ [][(pc = "run" /\ exec'.type # None /\ exec'.content = <<"<bytes>">>) =>
            /\ raised' = Raise("run", ContentTypeError)
            /\ pc' = "idle"
            /\ response'.kind = "failure"
            /\ response'.files = <<>>
            /\ events' = <<Output(Code, "code")>>
            /\ calls' = <<Call("run", Code)>>
            /\ fetched' = <<>>
            /\ toolret' = None
            /\ output_files' = output_files
            /\ invocations' = invocations]_vars
    /\ [][(pc = "plan" /\ pc' = "run") => output_files' = output_files]_vars
    /\ [](exec.content = <<"<bytes>">> => (pc = "idle" /\ response.kind = "failure"))

C18_Witness ==
    /\ pc = "idle"
    /\ exec = [type |-> "image/png", content |-> <<"<bytes>">>]
    /\ raised = Raise("run", ContentTypeError)
    /\ request.detailed_error
    /\ response.content = <<"Error in CodeInterpreterSession: ", "TypeError", "  - ",
                            "Expected output.content to be a string.">>
    /\ events = <<Output(Code, "code")>>
    /\ output_files = <<File("plot.png", "bytes")>>

\* C19 as stated: input_files holds only files whose upload succeeded: after
\* the first request has ended, however it ended, every name in input_files is
\* among the names uploaded, and a step in which the awaited upload fails leaves
\* the file it was for out of input_files.
C19_InputsAreUploaded ==
    /\ []((pc = "idle" /\ requests = 1) =>
            \A i \in 1..Len(input_files) :
                \E j \in 1..Len(uploaded) : uploaded[j] = input_files[i].name)
    /\ [][(pc = "upload" /\ raised'.at = "upload") =>
            input_files' = SubSeq(input_files, 1, Len(input_files) - 1)]_vars

====
